---- MODULE Spec2Model ----
(***************************************************************************)
(* numcsv: a tolerant reader and writer of numeric delimiter-separated     *)
(* text (github.com/btracey/numcsv/numcsv.go).                             *)
(*                                                                         *)
(* A Go string is modelled as a sequence of one-character strings, so      *)
(* "a,b" is <<"a", ",", "b">>.  A float64 is modelled as a normalised      *)
(* decimal <<m, e>> standing for m * 10^e, m not divisible by 10 (zero is  *)
(* <<0, 0>>).  The bufio.Scanner is the sequence of lines it yields plus   *)
(* the number of lines already scanned.                                    *)
(***************************************************************************)
EXTENDS Integers, Sequences, FiniteSets, TLC

VARIABLES
    lines,            \* the lines bufio.Scanner yields for the Reader's source
    pos,              \* scanner: number of lines already scanned
    Comma,            \* Reader.Comma (and Writer.Comma in the round trip)
    HeadingComma,     \* Reader.HeadingComma
    Comment,          \* Reader.Comment
    FieldsPerRecord,  \* Reader.FieldsPerRecord
    lineRead,         \* Reader.lineRead
    lastOp,           \* the last method called
    retErr,           \* error returned by the last call
    retHeading,       \* headings returned by ReadHeading
    retRow,           \* row returned by the last Read
    retTable,         \* matrix returned by the last ReadAll
    head,             \* outcome of the ReadHeading call: its local `line` when the
                      \* loop ended and the scanner position it returned at
    pre,              \* Reader fields and scanner position before the last call
    preset,           \* FieldsPerRecord as configured before the first call
    rowLens,          \* lengths of all rows returned without error so far
    w                 \* the Writer, its arguments and the bytes it produced

vars == <<lines, pos, Comma, HeadingComma, Comment, FieldsPerRecord, lineRead,
          lastOp, retErr, retHeading, retRow, retTable, head, pre, preset,
          rowLens, w>>

(***************************************************************************)
(* Bounds                                                                  *)
(***************************************************************************)
MaxLines == 3
MaxRows == 2

(***************************************************************************)
(* package strings                                                         *)
(***************************************************************************)
Space == {" ", "\t", "\r"}

HasPrefix(s, p) ==
    /\ Len(p) <= Len(s)
    /\ SubSeq(s, 1, Len(p)) = p

HasSuffix(s, p) ==
    /\ Len(p) <= Len(s)
    /\ SubSeq(s, Len(s) - Len(p) + 1, Len(s)) = p

TrimPrefix(s, p) == IF HasPrefix(s, p) THEN SubSeq(s, Len(p) + 1, Len(s)) ELSE s

TrimSuffix(s, p) == IF HasSuffix(s, p) THEN SubSeq(s, 1, Len(s) - Len(p)) ELSE s

RECURSIVE TrimLeft(_)
TrimLeft(s) ==
    IF s # <<>> /\ Head(s) \in Space THEN TrimLeft(Tail(s)) ELSE s

RECURSIVE TrimRight(_)
TrimRight(s) ==
    IF s # <<>> /\ s[Len(s)] \in Space
    THEN TrimRight(SubSeq(s, 1, Len(s) - 1))
    ELSE s

TrimSpace(s) == TrimRight(TrimLeft(s))

\* index of the first occurrence of sep in s, 0 when there is none
Index(s, sep) ==
    LET hits == {i \in 1..(Len(s) - Len(sep) + 1) :
                    SubSeq(s, i, i + Len(sep) - 1) = sep}
    IN  IF hits = {} THEN 0
        ELSE CHOOSE i \in hits : \A j \in hits : i <= j

RECURSIVE Split(_, _)
RECURSIVE SplitAt(_, _, _)
\* Split once the first occurrence of sep is known to be at index i
SplitAt(s, sep, i) ==
    IF i = 0 THEN <<s>>
    ELSE <<SubSeq(s, 1, i - 1)>> \o Split(SubSeq(s, i + Len(sep), Len(s)), sep)

Split(s, sep) ==
    IF sep = <<>>
    THEN [i \in 1..Len(s) |-> <<s[i]>>]
    ELSE SplitAt(s, sep, Index(s, sep))

(***************************************************************************)
(* package strconv, decimal literals                                       *)
(***************************************************************************)
Prec == 16
FloatFmt == "e"

Digit == {"0", "1", "2", "3", "4", "5", "6", "7", "8", "9"}

DigitVal(c) ==
    CASE c = "0" -> 0 [] c = "1" -> 1 [] c = "2" -> 2 [] c = "3" -> 3
      [] c = "4" -> 4 [] c = "5" -> 5 [] c = "6" -> 6 [] c = "7" -> 7
      [] c = "8" -> 8 [] c = "9" -> 9

DigitChar(d) == <<"0", "1", "2", "3", "4", "5", "6", "7", "8", "9">>[d + 1]

AllDigits(s) == \A i \in 1..Len(s) : s[i] \in Digit

RECURSIVE ToInt(_)
ToInt(s) == IF s = <<>> THEN 0 ELSE 10 * ToInt(SubSeq(s, 1, Len(s) - 1)) + DigitVal(s[Len(s)])

RECURSIVE ToDigits(_)
ToDigits(n) == IF n < 10 THEN <<DigitChar(n)>> ELSE ToDigits(n \div 10) \o <<DigitChar(n % 10)>>

RECURSIVE StripLeadingZeros(_)
StripLeadingZeros(s) ==
    IF s # <<>> /\ Head(s) = "0" THEN StripLeadingZeros(Tail(s)) ELSE s

RECURSIVE StripTrailingZeros(_)
StripTrailingZeros(s) ==
    IF s # <<>> /\ s[Len(s)] = "0"
    THEN StripTrailingZeros(SubSeq(s, 1, Len(s) - 1))
    ELSE s

Zeros(n) == [i \in 1..n |-> "0"]

Abs(n) == IF n < 0 THEN 0 - n ELSE n

HasSign(s) == s # <<>> /\ Head(s) \in {"+", "-"}

IsNeg(s) == s # <<>> /\ Head(s) = "-"

StripSign(s) == IF HasSign(s) THEN Tail(s) ELSE s

\* index of the exponent marker of a literal, 0 when it has none
ExpIndex(s) ==
    LET hits == {i \in 1..Len(s) : s[i] \in {"e", "E"}}
    IN  IF hits = {} THEN 0 ELSE CHOOSE i \in hits : \A j \in hits : i <= j

\* the float64 written with significant digits sig (no leading zeros) times
\* 10^e10, normalised; digs is sig without its trailing zeros
Normalise(neg, sig, digs, e10) ==
    IF digs = <<>> THEN <<0, 0>>
    ELSE <<IF neg THEN 0 - ToInt(digs) ELSE ToInt(digs), e10 + Len(sig) - Len(digs)>>

\* the value of the literal once its syntax has been checked
FloatValue(neg, sig, nfrac, e) ==
    [ok |-> TRUE, val |-> Normalise(neg, sig, StripTrailingZeros(sig), e - nfrac)]

\* the literal with its parts separated: integer and fraction digits and,
\* when hasExp, the sign and digits of the exponent
ParseParts(neg, intPart, fracPart, hasExp, eNeg, eDigits) ==
    IF /\ AllDigits(intPart)
       /\ AllDigits(fracPart)
       /\ Len(intPart) + Len(fracPart) >= 1
       /\ hasExp => (eDigits # <<>> /\ AllDigits(eDigits))
    THEN FloatValue(neg, StripLeadingZeros(intPart \o fracPart), Len(fracPart),
                    IF eNeg THEN 0 - ToInt(eDigits) ELSE ToInt(eDigits))
    ELSE [ok |-> FALSE, val |-> <<0, 0>>]

\* the mantissa and the exponent of the literal, dot being the index of the
\* decimal point in the mantissa
ParseMantissa(neg, mant, dot, hasExp, expo) ==
    ParseParts(neg,
               IF dot = 0 THEN mant ELSE SubSeq(mant, 1, dot - 1),
               IF dot = 0 THEN <<>> ELSE SubSeq(mant, dot + 1, Len(mant)),
               hasExp, IsNeg(expo), StripSign(expo))

ParseExp(neg, mant, hasExp, expo) ==
    ParseMantissa(neg, mant, Index(mant, <<".">>), hasExp, expo)

\* the literal without its sign, ePos being the index of its exponent marker
ParseUnsigned(neg, s, ePos) ==
    ParseExp(neg,
             IF ePos = 0 THEN s ELSE SubSeq(s, 1, ePos - 1),
             ePos # 0,
             IF ePos = 0 THEN <<>> ELSE SubSeq(s, ePos + 1, Len(s)))

ParseSigned(neg, s) == ParseUnsigned(neg, s, ExpIndex(s))

\* strconv.ParseFloat(str, 64) on decimal literals:
\*   [+-] digits [. digits] [ (e|E) [+-] digits ]   with a mantissa digit
ParseFloat(str) == ParseSigned(IsNeg(str), StripSign(str))

\* the exponent of %e: a sign and at least two digits
FormatExp(x, xs) ==
    (IF x < 0 THEN <<"-">> ELSE <<"+">>) \o (IF Len(xs) < 2 THEN <<"0">> \o xs ELSE xs)

\* the mantissa of %e: the first digit, the point, prec more digits
FormatMantissa(digs, prec) ==
    <<Head(digs)>> \o (IF prec > 0 THEN <<".">> \o SubSeq(digs, 2, prec + 1) ELSE <<>>)

FormatDigits(neg, digs, x, prec) ==
    (IF neg THEN <<"-">> ELSE <<>>)
        \o FormatMantissa(digs \o Zeros(prec + 1 - Len(digs)), prec)
        \o <<FloatFmt>> \o FormatExp(x, ToDigits(Abs(x)))

FormatDecimal(m, e, digs, prec) ==
    FormatDigits(m < 0, digs, IF m = 0 THEN 0 ELSE e + Len(digs) - 1, prec)

\* strconv.FormatFloat(f, 'e', prec, 64): d.ddd...e+XX with prec digits
\* after the point and an exponent of at least two digits
FormatFloat(f, prec) == FormatDecimal(f[1], f[2], ToDigits(Abs(f[1])), prec)

(***************************************************************************)
(* Errors                                                                  *)
(***************************************************************************)
NoErr == [kind |-> "nil"]

ErrFieldCount == [kind |-> "ErrFieldCount"]

\* the *strconv.NumError ParseFloat returns for a malformed literal
NumError(str) ==
    [kind |-> "NumError", Func |-> "ParseFloat", Num |-> str, Err |-> "ErrSyntax"]

(***************************************************************************)
(* Reader.  A Reader is the record r of its mutable fields and of the      *)
(* scanner position; Comma, HeadingComma and Comment are never assigned by *)
(* the package.                                                            *)
(***************************************************************************)
NilRow == [isNil |-> TRUE, vals |-> <<>>]

Row(vals) == [isNil |-> FALSE, vals |-> vals]

NilTable == [isNil |-> TRUE, r |-> 0, c |-> 0, at |-> <<>>]

\* the loop body that keeps a trimmed token unless it is empty
KeepToken(str) == IF Len(str) # 0 THEN <<str>> ELSE <<>>

RECURSIVE DropBlank(_)
DropBlank(strs) ==
    IF strs = <<>> THEN <<>>
    ELSE KeepToken(TrimSpace(Head(strs))) \o DropBlank(Tail(strs))

\* split on the delimiter, trim every token, drop the tokens left empty
Fields(line, comma) == DropBlank(Split(line, comma))

SkipLine_AnyPrefix(line) ==
    \/ line = <<>>
    \/ HasPrefix(line, Comment)

\* the test that makes ReadHeading's loop `continue`
SkipLine(line) ==
    \/ line = <<>>
    \/ Comment # <<>> /\ HasPrefix(line, Comment)

\* ReadHeading's scanning loop, started with p lines scanned and `line`
\* holding the text last assigned to it
RECURSIVE ScanHeading(_, _)
ScanHeading(p, line) ==
    IF p >= Len(lines) THEN [pos |-> p, line |-> line]
    ELSE IF SkipLine(lines[p + 1]) THEN ScanHeading(p + 1, lines[p + 1])
    ELSE [pos |-> p + 1, line |-> lines[p + 1]]

\* the delimiter ReadHeading splits its line on
HeadingSplitComma == Comma

Unquote_All(str) == SelectSeq(str, LAMBDA c : c # "\"")

Unquote(str) == TrimPrefix(TrimSuffix(str, <<"\"">>), <<"\"">>)

\* ReadHeading after its loop left the scanner at sc.pos with line sc.line
\* and the line was split into headings
HeadingResult(r, sc, headings) ==
    IF r.FieldsPerRecord # 0 /\ Len(headings) # r.FieldsPerRecord
    THEN [r        |-> [r EXCEPT !.pos = sc.pos],
          headings |-> <<>>,
          err      |-> ErrFieldCount,
          line     |-> sc.line]
    ELSE [r        |-> [FieldsPerRecord |-> Len(headings),
                        lineRead        |-> TRUE,
                        pos             |-> sc.pos],
          headings |-> [i \in 1..Len(headings) |-> Unquote(headings[i])],
          err      |-> NoErr,
          line     |-> sc.line]

HeadingScanned(r, sc) == HeadingResult(r, sc, Fields(sc.line, HeadingSplitComma))

ReadHeadingOp(r) == HeadingScanned(r, ScanHeading(r.pos, <<>>))

FirstLine_NoFlag(r, n) ==
    [r EXCEPT !.lineRead = TRUE,
              !.FieldsPerRecord = IF r.FieldsPerRecord = 0 THEN n
                                  ELSE r.FieldsPerRecord]

FirstLine_Override(r, n) ==
    IF ~r.lineRead
    THEN [r EXCEPT !.lineRead = TRUE, !.FieldsPerRecord = n]
    ELSE r

\* Read's first-line block: the first line read fixes an unset field count
FirstLine(r, n) ==
    IF ~r.lineRead
    THEN [r EXCEPT !.lineRead = TRUE,
                   !.FieldsPerRecord = IF r.FieldsPerRecord = 0 THEN n
                                       ELSE r.FieldsPerRecord]
    ELSE r

\* the parsing loop after a token parsed as f and the later tokens gave rest
ParseJoin(f, rest) ==
    IF rest.err.kind # "nil" THEN rest
    ELSE [err |-> NoErr, vals |-> <<f.val>> \o rest.vals]

ParseJoin_LastErr(str, f, rest) ==
    IF rest.err.kind # "nil" THEN rest
    ELSE IF ~f.ok THEN [err |-> NumError(str), vals |-> <<>>]
    ELSE [err |-> NoErr, vals |-> <<f.val>> \o rest.vals]

RECURSIVE ParseRow_LastErr(_)
ParseRow_LastErr(strs) ==
    IF strs = <<>> THEN [err |-> NoErr, vals |-> <<>>]
    ELSE ParseJoin_LastErr(Head(strs), ParseFloat(Head(strs)),
                           ParseRow_LastErr(Tail(strs)))

RECURSIVE ParseRow(_)
RECURSIVE ParseToken(_, _, _)
\* one round of the parsing loop: token str parsed as f, tail still to parse
ParseToken(str, f, tail) ==
    IF ~f.ok THEN [err |-> NumError(str), vals |-> <<>>]
    ELSE ParseJoin(f, ParseRow(tail))

\* Read's parsing loop over the tokens of one line
ParseRow(strs) ==
    IF strs = <<>> THEN [err |-> NoErr, vals |-> <<>>]
    ELSE ParseToken(Head(strs), ParseFloat(Head(strs)), Tail(strs))

\* Read's return once the tokens were parsed
ReadParsed(r, p) ==
    IF p.err.kind # "nil"
    THEN [r |-> r, data |-> NilRow, err |-> p.err]
    ELSE [r |-> r, data |-> Row(p.vals), err |-> NoErr]

\* Read's field-count check and what follows it
ReadChecked(r, strs) ==
    IF Len(strs) # r.FieldsPerRecord
    THEN [r |-> r, data |-> NilRow, err |-> ErrFieldCount]
    ELSE ReadParsed(r, ParseRow(strs))

\* Read once the line is split into its non-blank tokens
ReadFields(r, strs) == ReadChecked(FirstLine(r, Len(strs)), strs)

\* Read's result once the scanner has delivered a line
ReadLine(r, line) == ReadFields(r, Fields(line, Comma))

ReadOp_EOFError(r) ==
    IF r.pos >= Len(lines)
    THEN [r |-> r, data |-> NilRow, err |-> [kind |-> "EOF"]]
    ELSE ReadLine([r EXCEPT !.pos = r.pos + 1], lines[r.pos + 1])

ReadOp(r) ==
    IF r.pos >= Len(lines)
    THEN [r |-> r, data |-> NilRow, err |-> NoErr]
    ELSE ReadLine([r EXCEPT !.pos = r.pos + 1], lines[r.pos + 1])

LoopEnds_Empty(data) == Len(data.vals) = 0

\* ReadAll's loop test on what Read returned
LoopEnds(data) == data.isNil

RECURSIVE ReadAllLoop(_, _)
RECURSIVE ReadAllStep(_, _)
\* one round of ReadAll's loop, Read having returned rd
ReadAllStep(rd, alldata) ==
    IF rd.err.kind # "nil" THEN [r |-> rd.r, alldata |-> <<>>, err |-> rd.err]
    ELSE IF LoopEnds(rd.data) THEN [r |-> rd.r, alldata |-> alldata, err |-> NoErr]
    ELSE ReadAllLoop(rd.r, Append(alldata, rd.data.vals))

\* ReadAll's loop; alldata holds the rows accumulated so far
ReadAllLoop(r, alldata) == ReadAllStep(ReadOp(r), alldata)

\* mat64.NewDense(rows, cols, nil) filled from alldata by mat.Set
Dense(rows, cols, alldata) ==
    [isNil |-> FALSE, r |-> rows, c |-> cols, at |-> alldata]

\* ReadAll's return once its loop has ended with l
ReadAllResult(l) ==
    IF l.err.kind # "nil" THEN [r |-> l.r, mat |-> NilTable, err |-> l.err]
    ELSE [r   |-> l.r,
          mat |-> Dense(Len(l.alldata), l.r.FieldsPerRecord, l.alldata),
          err |-> NoErr]

ReadAllOp(r) == ReadAllResult(ReadAllLoop(r, <<>>))

(***************************************************************************)
(* Writer                                                                  *)
(***************************************************************************)
LineEnd(UseCRLF) == IF UseCRLF THEN <<"\r", "\n">> ELSE <<"\n">>

RECURSIVE JoinFields(_, _)
JoinFields(fields, comma) ==
    IF fields = <<>> THEN <<>>
    ELSE IF Len(fields) = 1 THEN fields[1]
    ELSE fields[1] \o comma \o JoinFields(Tail(fields), comma)

WriteHeading(wr, heading) ==
    JoinFields([n \in 1..Len(heading) |->
                   IF wr.QuoteHeading THEN <<"\"">> \o heading[n] \o <<"\"">>
                   ELSE heading[n]], wr.Comma)
        \o LineEnd(wr.UseCRLF)

Write(wr, record) ==
    JoinFields([n \in 1..Len(record) |-> FormatFloat(record[n], Prec)], wr.Comma)
        \o LineEnd(wr.UseCRLF)

RECURSIVE WriteRows(_, _, _)
WriteRows(wr, data, i) ==
    IF i > data.r THEN <<>>
    ELSE Write(wr, data.at[i]) \o WriteRows(wr, data, i + 1)

\* the bytes WriteAll has passed to the underlying io.Writer once flushed
WriteAll(wr, headings, data) ==
    (IF ~headings.isNil THEN WriteHeading(wr, headings.strs) ELSE <<>>)
        \o WriteRows(wr, data, 1)

\* bufio.ScanLines: the lines of data, each without its end-of-line marker
DropCR(line) ==
    IF line # <<>> /\ line[Len(line)] = "\r" THEN SubSeq(line, 1, Len(line) - 1)
    ELSE line

RECURSIVE ScanLines(_)
RECURSIVE ScanLinesAt(_, _)
\* ScanLines once the first line feed is known to be at index i
ScanLinesAt(data, i) ==
    IF i = 0 THEN <<DropCR(data)>>
    ELSE <<DropCR(SubSeq(data, 1, i - 1))>>
            \o ScanLines(SubSeq(data, i + 1, Len(data)))

ScanLines(data) ==
    IF data = <<>> THEN <<>> ELSE ScanLinesAt(data, Index(data, <<"\n">>))

(***************************************************************************)
(* Inputs                                                                  *)
(***************************************************************************)
SeqsUpTo(S, n) == UNION {[1..k -> S] : k \in 0..n}

\* lines of the Reader's source
SampleLines ==
    { <<>>,                                     \* empty line
      <<" ">>,                                  \* blank line
      <<"#", "a", ",", "b">>,                   \* #a,b
      <<"a", ";", "b">>,                        \* a;b
      <<"\"", "a", "\"", ",", " ", "b", ",">>,  \* "a", b,
      <<" ", "1", ",", ",", "2", "e", "1">>,    \* ' 1,,2e1'
      <<"3", ",", "4">>,                        \* 3,4
      <<"1", ",", "x", ",", "y">> }             \* 1,x,y

\* arguments of WriteAll
SampleNames ==
    { <<"a">>, <<>>, <<" ", "a">>, <<"a", " ", "b">>, <<"a", ",", "b">>,
      <<"\"", "a", "\"">>, <<"#", "a">> }

SampleHeadings ==
    { <<>> } \cup { <<n>> : n \in SampleNames }
             \cup { <<n, <<"b">>>> : n \in SampleNames }
             \cup { <<<<"a">>, <<"#", "a">>>> }

SampleValues == << <<0, 0>>, <<0 - 25, 0 - 1>>, <<3, 12>> >>

SampleRows(cols) ==
    { [j \in 1..cols |-> SampleValues[((j + k) % 3) + 1]] : k \in 0..2 }

Tables(cols) ==
    { Dense(Len(rows), cols, rows) : rows \in SeqsUpTo(SampleRows(cols), MaxRows) }

NoWriter ==
    [state |-> "none", Comma |-> <<>>, UseCRLF |-> FALSE, QuoteHeading |-> FALSE,
     headings |-> [isNil |-> TRUE, strs |-> <<>>], data |-> NilTable, out |-> <<>>]

(***************************************************************************)
(* State machine                                                           *)
(***************************************************************************)
Reader == [FieldsPerRecord |-> FieldsPerRecord, lineRead |-> lineRead, pos |-> pos]

InitResults ==
    /\ pos = 0
    /\ lineRead = FALSE
    /\ lastOp = "none"
    /\ retErr = NoErr
    /\ retHeading = <<>>
    /\ retRow = NilRow
    /\ retTable = NilTable
    /\ head = [state |-> "none", line |-> <<>>, pos |-> 0]
    /\ rowLens = {}
    /\ pre = [FieldsPerRecord |-> FieldsPerRecord, lineRead |-> FALSE, pos |-> 0]

\* NewReader over a source, then the caller's configuration of the fields
Init ==
    /\ lines \in SeqsUpTo(SampleLines, MaxLines)
    /\ Comma = <<",">>
    /\ HeadingComma \in {<<>>, <<";">>}
    /\ Comment \in {<<>>, <<"#">>}
    /\ preset \in {0, 2}
    /\ FieldsPerRecord = preset
    /\ w = NoWriter
    /\ InitResults

\* ReadHeading is called at most once, before any Read
ReadHeading ==
    /\ w.state # "idle"
    /\ lastOp = "none"
    /\ \E res \in {ReadHeadingOp(Reader)} :
           /\ pre' = Reader
           /\ FieldsPerRecord' = res.r.FieldsPerRecord
           /\ lineRead' = res.r.lineRead
           /\ pos' = res.r.pos
           /\ lastOp' = "ReadHeading"
           /\ retErr' = res.err
           /\ retHeading' = res.headings
           /\ head' = [state |-> IF res.err.kind = "nil" THEN "ok" ELSE "err",
                        line  |-> res.line,
                        pos   |-> res.r.pos]
    /\ UNCHANGED <<lines, Comma, HeadingComma, Comment, retRow, retTable,
                   preset, rowLens, w>>

Read ==
    /\ w.state # "idle"
    /\ \E res \in {ReadOp(Reader)} :
           /\ pre' = Reader
           /\ FieldsPerRecord' = res.r.FieldsPerRecord
           /\ lineRead' = res.r.lineRead
           /\ pos' = res.r.pos
           /\ lastOp' = "Read"
           /\ retErr' = res.err
           /\ retRow' = res.data
           /\ rowLens' = IF res.err.kind = "nil" /\ ~res.data.isNil
                         THEN rowLens \cup {Len(res.data.vals)}
                         ELSE rowLens
    /\ UNCHANGED <<lines, Comma, HeadingComma, Comment, retHeading, retTable,
                   head, preset, w>>

ReadAll ==
    /\ w.state # "idle"
    /\ \E res \in {ReadAllOp(Reader)} :
           /\ pre' = Reader
           /\ FieldsPerRecord' = res.r.FieldsPerRecord
           /\ lineRead' = res.r.lineRead
           /\ pos' = res.r.pos
           /\ lastOp' = "ReadAll"
           /\ retErr' = res.err
           /\ retTable' = res.mat
           /\ rowLens' = IF res.err.kind = "nil"
                         THEN rowLens \cup {Len(res.mat.at[i]) : i \in 1..res.mat.r}
                         ELSE rowLens
    /\ UNCHANGED <<lines, Comma, HeadingComma, Comment, retHeading, retRow,
                   head, preset, w>>

Next == ReadHeading \/ Read \/ ReadAll

Spec == Init /\ [][Next]_vars

(***************************************************************************)
(* Round trip: a Writer's output is the source of a Reader configured with *)
(* the same delimiter.                                                     *)
(***************************************************************************)
InitRT ==
    /\ lines = <<>>
    /\ Comma \in {<<",">>, <<" ">>}
    /\ HeadingComma = <<>>
    /\ Comment \in {<<>>, <<"#">>}
    /\ preset = 0
    /\ FieldsPerRecord = preset
    /\ \E hs \in SampleHeadings, q \in BOOLEAN, crlf \in BOOLEAN :
         \E t \in Tables(Len(hs)) :
            w = [state |-> "idle", Comma |-> Comma, UseCRLF |-> crlf,
                 QuoteHeading |-> q,
                 headings |-> [isNil |-> FALSE, strs |-> hs],
                 data |-> t, out |-> <<>>]
    /\ InitResults

\* w.WriteAll(headings, data), then NewReader over the bytes written
WriteAllStep ==
    /\ w.state = "idle"
    /\ \E out \in {WriteAll(w, w.headings, w.data)} :
           /\ w' = [w EXCEPT !.state = "flushed", !.out = out]
           /\ lines' = ScanLines(out)
    /\ UNCHANGED <<pos, Comma, HeadingComma, Comment, FieldsPerRecord, lineRead,
                   lastOp, retErr, retHeading, retRow, retTable, head, pre,
                   preset, rowLens>>

NextRT == WriteAllStep \/ ReadHeading \/ ReadAll

SpecRT == InitRT /\ [][NextRT]_vars

(***************************************************************************)
(* Properties                                                              *)
(***************************************************************************)
Failed == retErr.kind # "nil"

Exhausted == pos = Len(lines)

\* C1: when no lines remain, Read returns a nil row and a nil error, every
\* further Read does so again, and the Reader never leaves the exhausted state.
C1_EndOfStream ==
    [][Exhausted =>
          /\ Exhausted'
          /\ lastOp' = "Read" => (retRow'.isNil /\ retErr'.kind = "nil")]_vars

\* a Read issued on an exhausted, non-empty stream after a heading was read
C1_Witness ==
    /\ lastOp = "Read"
    /\ head.state = "ok"
    /\ Len(lines) > 0
    /\ pre.pos = Len(lines)
    /\ retRow.isNil

\* C2: every row returned without error has the length of the heading when a
\* heading was read, and no two rows returned by one Reader differ in length.
C2_FieldCount ==
    /\ Cardinality(rowLens) <= 1
    /\ head.state = "ok" => \A n \in rowLens : n = Len(retHeading)

\* a heading and two rows were read
C2_Witness ==
    /\ head.state = "ok"
    /\ Len(retHeading) = 2
    /\ lastOp = "ReadAll"
    /\ ~Failed
    /\ retTable.r = 2
    /\ rowLens = {2}

\* C3: ReadHeading splits its line on HeadingComma when that is non-empty and
\* on Comma only when HeadingComma is empty.
C3_HeadingDelimiter ==
    (lastOp = "ReadHeading" /\ ~Failed) =>
        LET comma == IF HeadingComma # <<>> THEN HeadingComma ELSE Comma
            toks  == Fields(head.line, comma)
        IN  retHeading = [i \in 1..Len(toks) |->
                             TrimPrefix(TrimSuffix(toks[i], <<"\"">>), <<"\"">>)]

Begins(line, p) == Len(p) <= Len(line) /\ \A i \in 1..Len(p) : line[i] = p[i]

\* lines the heading search passes over: blank after trimming, or commented
BlankOrComment(line) ==
    \/ TrimSpace(line) = <<>>
    \/ Comment # <<>> /\ Begins(line, Comment)

\* lines the heading search passes over: of length zero, or commented
EmptyOrComment(line) ==
    \/ Len(line) = 0
    \/ Comment # <<>> /\ Begins(line, Comment)

FirstLineNot(Skipped(_)) ==
    LET real == {k \in 1..Len(lines) : ~Skipped(lines[k])}
    IN  IF real = {} THEN 0 ELSE CHOOSE k \in real : \A j \in real : k <= j

\* the heading was built from line k and the lines before it caused no error
HeadingFrom(k) ==
    /\ pos = k
    /\ head.line = lines[k]
    /\ Failed => (preset # 0 /\ Len(Fields(lines[k], HeadingSplitComma)) # preset)

\* C4 as stated: ReadHeading passes over every leading line that is blank
\* after trimming white space or that begins with the comment prefix, and
\* builds the heading from the first line that is neither.
C4_SkipsBlankLines ==
    (lastOp = "ReadHeading" /\ FirstLineNot(BlankOrComment) # 0) =>
        HeadingFrom(FirstLineNot(BlankOrComment))

\* C4 amended: ReadHeading passes over every leading line that has length
\* zero or that begins with the non-empty comment prefix, however many there
\* are, and builds the heading from the first line that is neither; a line
\* of white space only is not passed over.
C4_SkipsEmptyLines ==
    (lastOp = "ReadHeading" /\ FirstLineNot(EmptyOrComment) # 0) =>
        HeadingFrom(FirstLineNot(EmptyOrComment))

\* an empty line and a comment line precede the line the heading came from
C4_Witness ==
    /\ lastOp = "ReadHeading"
    /\ ~Failed
    /\ Comment # <<>>
    /\ Len(lines) = 3
    /\ lines[1] = <<>>
    /\ HasPrefix(lines[2], Comment)
    /\ pos = 3
    /\ Len(retHeading) = 2

\* C10: when every line is empty or commented, ReadHeading returns an empty
\* heading and an expected field count of 0; no token comes from such a line.
C10_SkippedLinesUnused ==
    (/\ lastOp = "ReadHeading"
     /\ preset = 0
     /\ \A k \in 1..Len(lines) : EmptyOrComment(lines[k])) =>
        /\ ~Failed
        /\ retHeading = <<>>
        /\ FieldsPerRecord = 0

\* the tokens Read sees on the line it has just consumed
ReadTokens == Fields(lines[pre.pos + 1], Comma)

BadTokens(toks) == {i \in 1..Len(toks) : ~ParseFloat(toks[i]).ok}

FirstBad(toks) == CHOOSE i \in BadTokens(toks) : \A j \in BadTokens(toks) : i <= j

\* Read consumed a line with the expected number of tokens, one of them
\* not a floating-point literal
ReadBadToken ==
    /\ lastOp = "Read"
    /\ pre.pos < Len(lines)
    /\ Len(ReadTokens) = FieldsPerRecord
    /\ BadTokens(ReadTokens) # {}

\* C7 as stated: the error of such a Read identifies the first unparseable
\* token by value and by field position, and no row is returned.
C7_ParseErrorPosition ==
    ReadBadToken =>
        /\ retRow.isNil
        /\ retErr.kind = "NumError"
        /\ retErr.Num = ReadTokens[FirstBad(ReadTokens)]
        /\ "Index" \in DOMAIN retErr
        /\ retErr.Index = FirstBad(ReadTokens) - 1

\* C7 amended: such a Read returns a nil row and the error of
\* strconv.ParseFloat for the first (lowest-index) unparseable token, which
\* carries that token's text and no field position.
C7_ParseErrorToken ==
    ReadBadToken =>
        /\ retRow.isNil
        /\ retErr.kind = "NumError"
        /\ retErr.Num = ReadTokens[FirstBad(ReadTokens)]
        /\ DOMAIN retErr = {"kind", "Func", "Num", "Err"}

\* the line 1,x,y was read: two unparseable tokens, the first in field 1
C7_Witness ==
    /\ ReadBadToken
    /\ Cardinality(BadTokens(ReadTokens)) = 2
    /\ FirstBad(ReadTokens) = 2
    /\ retErr.kind = "NumError"

\* C6: ReadAll returns the error of the first failing Read and no table, or
\* else a table with one row per line that remained, in input order.
C6_ReadAll ==
    lastOp = "ReadAll" =>
        IF Failed
        THEN /\ retTable.isNil
             /\ pos > pre.pos
             /\ retErr = ReadLine(Reader, lines[pos]).err
             /\ \A k \in (pre.pos + 1)..(pos - 1) :
                   ReadLine(Reader, lines[k]).err.kind = "nil"
        ELSE /\ ~retTable.isNil
             /\ pos = Len(lines)
             /\ retTable.r = Len(lines) - pre.pos
             /\ retTable.c = FieldsPerRecord
             /\ Len(retTable.at) = retTable.r
             /\ \A i \in 1..retTable.r :
                   retTable.at[i] = ParseRow(Fields(lines[pre.pos + i], Comma)).vals

\* ReadAll returned the two rows that followed the heading
C6_Witness ==
    /\ lastOp = "ReadAll"
    /\ ~Failed
    /\ pre.pos = 1
    /\ retTable.r = 2
    /\ retTable.at[1] # retTable.at[2]

\* the expected field count has been fixed: by configuration, by a
\* successful ReadHeading, or by a Read that consumed a line
Established ==
    \/ preset # 0
    \/ head.state = "ok"
    \/ lastOp \in {"Read", "ReadAll"} /\ pos > 0

\* C8: once established, the expected field count is never changed by a
\* later ReadHeading, Read or ReadAll, whether the call succeeds or fails.
C8_WriteOnce ==
    [][Established => FieldsPerRecord' = FieldsPerRecord]_vars

\* the count inferred by the first Read survived a later, failing Read
C8_Witness ==
    /\ preset = 0
    /\ head.state = "none"
    /\ lastOp = "Read"
    /\ pre.pos >= 1
    /\ pre.FieldsPerRecord = 2
    /\ retErr.kind = "ErrFieldCount"

FailedRead ==
    /\ lastOp = "Read"
    /\ retErr.kind \in {"ErrFieldCount", "NumError"}

\* C9 as stated: a Read that fails with a field-count or parse error only
\* advances the cursor by one line; expected field count and first-line
\* flag are as before the call.
C9_FailedReadFrame ==
    FailedRead =>
        /\ pos = pre.pos + 1
        /\ FieldsPerRecord = pre.FieldsPerRecord
        /\ lineRead = pre.lineRead

\* C9 amended: a failed Read advances the cursor by exactly one line; when
\* the first-line flag was already set, expected field count and flag are
\* unchanged; when it was not, the call sets the flag and, if no count was
\* set, takes the count from the tokens of the line it failed on.
C9_FailedReadEffect ==
    FailedRead =>
        /\ pos = pre.pos + 1
        /\ lineRead
        /\ FieldsPerRecord =
              IF pre.lineRead \/ pre.FieldsPerRecord # 0 THEN pre.FieldsPerRecord
              ELSE Len(ReadTokens)

\* a parse error on a line read after the first line had been consumed
C9_Witness ==
    /\ FailedRead
    /\ pre.lineRead
    /\ pre.pos >= 1
    /\ retErr.kind = "NumError"

(***************************************************************************)
(* Round trip                                                              *)
(***************************************************************************)
\* WriteAll, then ReadHeading, then ReadAll on the bytes written
RoundTripDone ==
    /\ w.state = "flushed"
    /\ head.state # "none"
    /\ lastOp = "ReadAll"
    /\ pre.pos = head.pos

RoundTripEqual ==
    /\ head.state = "ok"
    /\ ~Failed
    /\ retHeading = w.headings.strs
    /\ retTable.r = w.data.r
    /\ retTable.c = w.data.c
    /\ retTable.at = w.data.at

\* C5 as stated, on headings of at least one name: for any heading and any
\* table of matching width, ReadHeading and ReadAll over the bytes of WriteAll
\* return the heading and the table.
C5_RoundTripAny ==
    (RoundTripDone /\ Len(w.headings.strs) >= 1) => RoundTripEqual

\* names the Reader returns as written
PlainHeading ==
    LET hs == w.headings.strs
    IN  /\ Len(hs) >= 1
        /\ \A n \in 1..Len(hs) :
              \A i \in 1..(Len(hs[n]) - Len(Comma) + 1) :
                  SubSeq(hs[n], i, i + Len(Comma) - 1) # Comma
        /\ ~(Comment # <<>> /\ Begins(ScanLines(w.out)[1], Comment))
        /\ ~w.QuoteHeading =>
              \A n \in 1..Len(hs) :
                  /\ hs[n] # <<>>
                  /\ hs[n][1] \notin Space \cup {"\""}
                  /\ hs[n][Len(hs[n])] \notin Space \cup {"\""}

\* C5 amended: the round trip returns the heading and the table when the
\* heading has at least one name, no name contains the delimiter, the
\* heading line does not begin with the comment prefix and, unless headings
\* are written quoted, every name is non-empty and neither begins nor ends
\* with white space or a double quote.
C5_RoundTripPlain == (RoundTripDone /\ PlainHeading) => RoundTripEqual

\* two quoted names, one of them with quotes of its own, and two rows
C5_Witness ==
    /\ RoundTripDone
    /\ PlainHeading
    /\ w.QuoteHeading
    /\ Len(w.headings.strs) = 2
    /\ w.headings.strs[1] = <<"\"", "a", "\"">>
    /\ w.data.r = 2
    /\ RoundTripEqual

====
